---- MODULE Spec2Model ----
(***************************************************************************)
(* Model of neosr/data/transforms.py: mod_crop, paired_random_crop and     *)
(* basic_augment.  Every call is one action; the state records the last    *)
(* call (its arguments, its outcome, the caller's buffers after the call)  *)
(* and the number of samples taken from the process-wide random source.    *)
(***************************************************************************)
EXTENDS Integers, Sequences, FiniteSets, TLC

VARIABLES op, args, result, caller, rngCount

vars == <<op, args, result, caller, rngCount>>

\* ---- bounds of the model ----
MaxDim == 3          \* largest extent of an axis of a pixel-carrying buffer
MaxScale == 3        \* largest scale handed to mod_crop
MaxGroup == 3        \* longest sequence of buffers in a group
MaxDraws == 4        \* samples the random source hands out in one behaviour
MaxLq == 34          \* largest LQ height or width handed to paired_random_crop
MaxPatch == 2        \* largest lq_patch_size
MaxCropScale == 2    \* largest scale handed to paired_random_crop
MaxCropGroup == 2    \* longest group handed to paired_random_crop
AugDim == 2          \* largest extent of an axis of a buffer handed to basic_augment
AugCh == 2           \* channels of a 3-D buffer handed to basic_augment
NumCh == 3           \* channels of a buffer handed to paired_random_crop
Batch == 1           \* leading axis of a 4-D tensor

\* ---- n-dimensional arrays: a shape and one value per index tuple ----
Radix == MaxDim + AugDim + 2

RECURSIVE Encode(_, _)
Encode(idx, k) ==
    IF k = 0 THEN 0 ELSE Encode(idx, k - 1) * Radix + idx[k] + 1

Largest(shape) ==
    CHOOSE m \in {shape[k] : k \in 1..Len(shape)} :
        \A k \in 1..Len(shape) : shape[k] <= m

Indices(shape) ==
    {idx \in [1..Len(shape) -> 0..(Largest(shape) - 1)] :
        \A k \in 1..Len(shape) : idx[k] < shape[k]}

\* a buffer whose every element is different, so that any flip, transpose
\* or crop of it is visible in the data
Ramp(shape, base) ==
    [shape |-> shape,
     data  |-> [idx \in Indices(shape) |-> base + Encode(idx, Len(shape))]]

Shapes(ndim, max) == [1..ndim -> 1..max]

\* the process is gone after sys.exit
Alive == result.status # "exited"

\* the single-threaded caller makes a call when it holds no pending result
Idle == op = "none"

\* ---- mod_crop ----
NdimOkWide(ndim) == ndim \in {2, 3, 4}
NdimOk(ndim) == ndim \in {2, 3}

RemainderSwapped(h, w, scale) == <<h % scale, h % scale>>
Remainders(h, w, scale) == <<h % scale, w % scale>>

\* img[: hh, : ww, ...]
TopLeft(img, hh, ww) ==
    LET shp == [k \in 1..Len(img.shape) |->
                    IF k = 1 THEN hh ELSE IF k = 2 THEN ww ELSE img.shape[k]]
    IN [shape |-> shp, data |-> [idx \in Indices(shp) |-> img.data[idx]]]

mod_crop(img, scale) ==
    IF NdimOk(Len(img.shape))
    THEN LET h == img.shape[1]
             w == img.shape[2]
             rem == Remainders(h, w, scale)
         IN [status |-> "returned",
             img |-> TopLeft(img, h - rem[1], w - rem[2])]
    ELSE [status |-> "raised", error |-> "ValueError",
          msg |-> <<"Wrong img ndim", Len(img.shape)>>]

ModCropCall ==
    /\ Idle
    /\ \E ndim \in 1..4 : \E shape \in Shapes(ndim, MaxDim) : \E scale \in 1..MaxScale :
        LET img == Ramp(shape, 0) IN
        /\ op' = "mod_crop"
        /\ args' = [img |-> img, scale |-> scale]
        /\ result' = mod_crop(img, scale)
        /\ caller' = <<img>>        \* img.copy(): the argument is never written
        /\ UNCHANGED rngCount

Init ==
    /\ op = "none"
    /\ args = [none |-> TRUE]
    /\ result = [status |-> "none"]
    /\ caller = <<>>
    /\ rngCount = 0

\* ---- the wrap / unwrap of a group: isinstance(x, list), len(x) == 1 ----
\* a group is [isList, items]; a single buffer is a group that is no list
NeverUnwrap(n) == TRUE
OutIsList(n) == n # 1

Unwrap(items) == [isList |-> OutIsList(Len(items)), items |-> items]

\* ---- paired_random_crop ----
LqSizes == {1, 2, MaxLq}

CropShape(kind, rank, h, w) ==
    IF kind = "Tensor"
    THEN (IF rank = 4 THEN <<Batch, NumCh, h, w>> ELSE <<NumCh, h, w>>)
    ELSE (IF rank = 3 THEN <<h, w, NumCh>> ELSE <<h, w>>)

\* img.shape[2:] for a tensor, img.shape[0:2] for an array
Spatial(kind, shape) ==
    IF kind = "Tensor" THEN SubSeq(shape, 3, Len(shape)) ELSE SubSeq(shape, 1, 2)

\* v[:, :, a:b, c:d] for a tensor, v[a:b, c:d, ...] for an array
CropAxesLeading(kind) == <<1, 2>>
CropAxes(kind) == IF kind = "Tensor" THEN <<3, 4>> ELSE <<1, 2>>

Min(a, b) == IF a < b THEN a ELSE b

\* a slice a:b of an axis of extent n, 0 <= a <= b, as Python clamps it
Slice(n, a, b) == <<Min(a, n), Min(b, n)>>

CropView(src, shape, kind, top, left, size) ==
    LET ax == CropAxes(kind)
        rng == [k \in 1..Len(shape) |->
                   IF k = ax[1] THEN Slice(shape[k], top, top + size)
                   ELSE IF k = ax[2] THEN Slice(shape[k], left, left + size)
                   ELSE <<0, shape[k]>>]
    IN [src |-> src, ranges |-> rng,
        shape |-> [k \in 1..Len(shape) |-> rng[k][2] - rng[k][1]]]

ScaleMismatchBoth(h_gt, w_gt, h_lq, w_lq, scale) ==
    h_gt # h_lq * scale /\ w_gt # w_lq * scale
ScaleMismatch(h_gt, w_gt, h_lq, w_lq, scale) ==
    h_gt # h_lq * scale \/ w_gt # w_lq * scale

PatchTooLarge(h_lq, w_lq, lq_patch_size) ==
    h_lq < lq_patch_size \/ w_lq < lq_patch_size

Unaligned(r) == r
AlignOrigin(r) == (r \div 16) * 16

\* what randint(0, n) can return; the call is only reached with n >= 0
RandInt(n) == IF n >= 0 THEN 0..n ELSE {0}

\* (random.randint(0, n) // 16) * 16: the origins the draw can give
Origins(n) == {AlignOrigin(r) : r \in RandInt(n)}

\* top, left: the origin the two draws gave
paired_random_crop(gts, lqs, kind, lq_patch_size, scale, gt_path, top, left) ==
    LET dl == Spatial(kind, lqs[1])
        dg == Spatial(kind, gts[1])
    IN
    IF Len(dl) # 2 \/ Len(dg) # 2
    THEN [status |-> "raised", error |-> "ValueError", input_type |-> kind]
    ELSE
    LET h_lq == dl[1]
        w_lq == dl[2]
        h_gt == dg[1]
        w_gt == dg[2]
        gt_patch_size == lq_patch_size * scale
    IN
    IF ScaleMismatch(h_gt, w_gt, h_lq, w_lq, scale)
    THEN [status |-> "exited", code |-> 1, report |-> "Scale mismatches",
          dims |-> <<h_gt, w_gt, scale, h_lq, w_lq>>, path |-> gt_path,
          input_type |-> kind]
    ELSE IF PatchTooLarge(h_lq, w_lq, lq_patch_size)
    THEN [status |-> "exited", code |-> 1, report |-> "smaller than patch size",
          dims |-> <<h_lq, w_lq, lq_patch_size>>, path |-> gt_path,
          input_type |-> kind]
    ELSE
    LET top_gt == top * scale
        left_gt == left * scale
    IN [status |-> "returned",
        input_type |-> kind,
        dims |-> <<h_gt, w_gt, h_lq, w_lq>>,
        origin |-> [top |-> top, left |-> left,
                    top_gt |-> top_gt, left_gt |-> left_gt,
                    gt_patch_size |-> gt_patch_size],
        lqs |-> Unwrap([i \in 1..Len(lqs) |->
                   CropView(i, lqs[i], kind, top, left, lq_patch_size)]),
        gts |-> Unwrap([i \in 1..Len(gts) |->
                   CropView(i, gts[i], kind, top_gt, left_gt, gt_patch_size)])]

GroupForms(max) ==
    {[isList |-> FALSE, n |-> 1]} \cup {[isList |-> TRUE, n |-> k] : k \in 1..max}

PairedRandomCropCall ==
    /\ Idle
    /\ rngCount + 2 <= MaxDraws      \* room for the two draws of a call
    /\ \E kind \in {"Numpy", "Tensor"} :
       \E rank \in (IF kind = "Tensor" THEN {3, 4} ELSE {2, 3}) :
       \E h_lq \in LqSizes, w_lq \in LqSizes :
       \E scale \in 1..MaxCropScale, lq_patch_size \in 1..MaxPatch :
       \E dh \in {0, 1}, dw \in {0, 1} :
       \E gf \in GroupForms(MaxCropGroup), lf \in GroupForms(MaxCropGroup) :
       \E top \in Origins(h_lq - lq_patch_size),
          left \in Origins(w_lq - lq_patch_size) :
        LET gshape == CropShape(kind, rank, h_lq * scale + dh, w_lq * scale + dw)
            lshape == CropShape(kind, rank, h_lq, w_lq)
            gts == [i \in 1..gf.n |-> gshape]
            lqs == [i \in 1..lf.n |-> lshape]
            res == paired_random_crop(gts, lqs, kind, lq_patch_size, scale,
                                      "gt_path", top, left)
            drawn == IF res.status = "returned" THEN 2 ELSE 0
        IN
        /\ op' = "paired_random_crop"
        /\ args' = [gts |-> [isList |-> gf.isList, items |-> gts],
                    lqs |-> [isList |-> lf.isList, items |-> lqs],
                    kind |-> kind, lq_patch_size |-> lq_patch_size,
                    scale |-> scale, gt_path |-> "gt_path",
                    \* the true extents of the first buffers
                    actual |-> [h_lq |-> h_lq, w_lq |-> w_lq,
                              h_gt |-> h_lq * scale + dh,
                              w_gt |-> w_lq * scale + dw]]
        /\ result' = res
        /\ caller' = gts \o lqs     \* slicing makes views, nothing is written
        /\ rngCount' = rngCount + drawn

\* ---- basic_augment ----
\* samples and probabilities are counted in halves: random.random() is in
\* [0, 1), so 0 or 1/2; a probability is 0, 1/2 (the default) or 1
Samples == {0, 1}
Probs == {0, 1, 2}

\* `flag and random.random() <= prob`: the sample is drawn only if flag holds
AlwaysOne(flag) == 1
DrawCount(flag) == IF flag THEN 1 ELSE 0

IgnoreFlag(flag, sample, prob) == sample <= prob
Chosen(flag, sample, prob) == flag /\ sample <= prob

\* stream: the next three values the random source would hand out
Decide(hflip, rotation, flip_prob, rotation_prob, stream) ==
    LET n1 == DrawCount(hflip)
        n2 == n1 + DrawCount(rotation)
        n3 == n2 + DrawCount(rotation)
    IN [hflip |-> Chosen(hflip, stream[1], flip_prob),
        vflip |-> Chosen(rotation, stream[IF n2 > 0 THEN n2 ELSE 1], flip_prob),
        rot90 |-> Chosen(rotation, stream[IF n3 > 0 THEN n3 ELSE 1], rotation_prob),
        drawn |-> SubSeq(stream, 1, n3)]

\* cv2.flip(img, 1, img) reverses axis 2 (width), cv2.flip(img, 0, img)
\* reverses axis 1 (height); both write into img
FlipAxis(img, ax) ==
    [shape |-> img.shape,
     data  |-> [idx \in Indices(img.shape) |->
                   img.data[[idx EXCEPT ![ax] = img.shape[ax] - 1 - idx[ax]]]]]

\* img.transpose(1, 0, 2): three axes are named, so img must be 3-D
TransposeOk(img) == Len(img.shape) = 3
Transpose102(img) ==
    LET shp == <<img.shape[2], img.shape[1], img.shape[3]>>
    IN [shape |-> shp,
        data  |-> [idx \in Indices(shp) |-> img.data[<<idx[2], idx[1], idx[3]>>]]]

\* _augment: buf is the caller's buffer afterwards, out the value returned
AugmentRotFirst(img, d) ==
    LET t  == IF d.rot90 /\ TransposeOk(img) THEN Transpose102(img) ELSE img
        b1 == IF d.hflip THEN FlipAxis(t, 2) ELSE t
        b2 == IF d.vflip THEN FlipAxis(b1, 1) ELSE b1
    IN [status |-> "returned", buf |-> b2, out |-> b2]
Augment(img, d) ==
    LET b1 == IF d.hflip THEN FlipAxis(img, 2) ELSE img
        b2 == IF d.vflip THEN FlipAxis(b1, 1) ELSE b1
    IN IF d.rot90
       THEN (IF TransposeOk(b2)
             THEN [status |-> "returned", buf |-> b2, out |-> Transpose102(b2)]
             ELSE [status |-> "raised", buf |-> b2, out |-> b2])
       ELSE [status |-> "returned", buf |-> b2, out |-> b2]

basic_augment(imgs, hflip, rotation, flip_prob, rotation_prob, return_status, stream) ==
    LET d == Decide(hflip, rotation, flip_prob, rotation_prob, stream)
        each == [i \in 1..Len(imgs) |-> Augment(imgs[i], d)]
        failed == {i \in 1..Len(imgs) : each[i].status = "raised"}
    IN IF failed = {}
       THEN [status |-> "returned",
             imgs |-> Unwrap([i \in 1..Len(imgs) |-> each[i].out]),
             triple |-> IF return_status THEN <<d.hflip, d.vflip, d.rot90>> ELSE <<>>,
             decision |-> d,
             bufs |-> [i \in 1..Len(imgs) |-> each[i].buf]]
       ELSE LET k == CHOOSE i \in failed : \A j \in failed : i <= j
            IN [status |-> "raised", error |-> "ValueError",
                decision |-> d,
                \* the comprehension stops at the first buffer that fails
                bufs |-> [i \in 1..Len(imgs) |->
                             IF i <= k THEN each[i].buf ELSE imgs[i]]]

\* the values the source hands out next; those the call does not
\* consume are left out of the choice
Streams(hflip, rotation) ==
    {st \in [1..3 -> Samples] :
        \A k \in 1..3 :
            k > DrawCount(hflip) + 2 * DrawCount(rotation) => st[k] = 0}

\* (h, w) grey images and (h, w, c) colour images
AugShapes ==
    {<<h, w>> : h \in {1, AugDim}, w \in {1, AugDim}}
        \cup {<<h, w, AugCh>> : h \in {1, AugDim}, w \in {1, AugDim}}

GroupBase(i) == (i - 1) * Radix * Radix * Radix

BasicAugmentCall ==
    /\ Idle
    /\ rngCount + 3 <= MaxDraws      \* room for the most a call can draw
    /\ \E hflip \in BOOLEAN, rotation \in BOOLEAN, return_status \in BOOLEAN :
       \E flip_prob \in Probs, rotation_prob \in Probs :
       \E stream \in Streams(hflip, rotation) :
       \E shape \in AugShapes :
       \E gf \in GroupForms(MaxGroup) :
        LET imgs == [i \in 1..gf.n |-> Ramp(shape, GroupBase(i))]
            res == basic_augment(imgs, hflip, rotation, flip_prob,
                                 rotation_prob, return_status, stream)
        IN
        /\ op' = "basic_augment"
        /\ args' = [imgs |-> [isList |-> gf.isList, items |-> imgs],
                    hflip |-> hflip, rotation |-> rotation,
                    flip_prob |-> flip_prob, rotation_prob |-> rotation_prob,
                    return_status |-> return_status]
        /\ result' = [f \in DOMAIN res \ {"bufs"} |-> res[f]]
        /\ caller' = res.bufs
        /\ rngCount' = rngCount + Len(res.decision.drawn)

\* the caller takes the outcome of a call (a value or an exception) and
\* drops it; nothing of a call is kept but the state of the random source
Release ==
    /\ ~Idle
    /\ Alive
    /\ op' = "none"
    /\ args' = [none |-> TRUE]
    /\ result' = [status |-> "none"]
    /\ caller' = <<>>
    /\ UNCHANGED rngCount

\* ======================= properties =======================

\* ---- mod_crop ----
\* C4: for a 2-D or 3-D image and scale s >= 1, mod_crop returns the top-left
\* sub-region of height h - (h mod s) and width w - (w mod s), all other axes
\* whole; both extents are divisible by s; cropping the result again with the
\* same s changes nothing.
C4_ModCropDivisibleIdempotent ==
    (op = "mod_crop" /\ Len(args.img.shape) \in {2, 3}) =>
        LET src == args.img
            s == args.scale
            h == src.shape[1]
            w == src.shape[2]
        IN /\ result.status = "returned"
           /\ Len(result.img.shape) = Len(src.shape)
           /\ result.img.shape[1] = h - (h % s)
           /\ result.img.shape[2] = w - (w % s)
           /\ \A k \in 3..Len(src.shape) : result.img.shape[k] = src.shape[k]
           /\ result.img.shape[1] % s = 0
           /\ result.img.shape[2] % s = 0
           /\ DOMAIN result.img.data = Indices(result.img.shape)
           /\ \A idx \in DOMAIN result.img.data :
                  result.img.data[idx] = src.data[idx]
           /\ mod_crop(result.img, s) = [status |-> "returned", img |-> result.img]

C4_Witness ==
    /\ op = "mod_crop"
    /\ args.img.shape = <<3, 3, 2>>
    /\ args.scale = 2
    /\ result.status = "returned"
    /\ result.img.shape = <<2, 2, 2>>

\* C5: mod_crop on a buffer that is neither 2-D nor 3-D raises (ValueError,
\* "Wrong img ndim"): no image is returned, the process lives on, and the
\* caller's buffer is what it was.
C5_ModCropRejectsNdim ==
    (op = "mod_crop" /\ Len(args.img.shape) \notin {2, 3}) =>
        /\ result.status = "raised"
        /\ result.error = "ValueError"
        /\ result.msg = <<"Wrong img ndim", Len(args.img.shape)>>
        /\ "img" \notin DOMAIN result
        /\ Alive
        /\ caller = <<args.img>>

C5_Witness ==
    /\ op = "mod_crop"
    /\ Len(args.img.shape) = 4
    /\ result.status = "raised"

\* ---- paired_random_crop ----
\* where height and width really are: the last two axes of a tensor, the
\* first two of an array
TrueAxes(kind, shape) ==
    IF kind = "Tensor" THEN <<Len(shape) - 1, Len(shape)>> ELSE <<1, 2>>

\* a cropped buffer is the window [t, t + n) x [l, l + n) of buffer i of the
\* group, every other axis whole
IsWindow(view, i, shape, kind, t, l, n) ==
    LET ax == TrueAxes(kind, shape)
    IN /\ view.src = i
       /\ Len(view.ranges) = Len(shape)
       /\ view.ranges[ax[1]] = <<t, t + n>>
       /\ view.ranges[ax[2]] = <<l, l + n>>
       /\ \A k \in 1..Len(shape) :
              k \notin {ax[1], ax[2]} => view.ranges[k] = <<0, shape[k]>>
       /\ \A k \in 1..Len(shape) :
              view.shape[k] = view.ranges[k][2] - view.ranges[k][1]

\* C1: whenever paired_random_crop returns, the LQ origin is a multiple of 16
\* in each coordinate and lies in [0, lq_height - lq_patch_size] x
\* [0, lq_width - lq_patch_size]; the GT origin is scale times it; the GT
\* square of side lq_patch_size * scale lies inside the GT buffer; and every
\* returned GT patch is scale times the returned LQ patch in height and width.
C1_CropOriginAndScale ==
    (op = "paired_random_crop" /\ result.status = "returned") =>
        LET a == args.actual
            o == result.origin
            n == args.lq_patch_size
            sc == args.scale
            axl == TrueAxes(args.kind, args.lqs.items[1])
            axg == TrueAxes(args.kind, args.gts.items[1])
        IN /\ a.h_gt = a.h_lq * sc /\ a.w_gt = a.w_lq * sc
           /\ a.h_lq >= n /\ a.w_lq >= n
           /\ o.top % 16 = 0 /\ o.left % 16 = 0
           /\ 0 <= o.top /\ o.top <= a.h_lq - n
           /\ 0 <= o.left /\ o.left <= a.w_lq - n
           /\ o.top_gt = o.top * sc /\ o.left_gt = o.left * sc
           /\ o.top_gt + n * sc <= a.h_gt
           /\ o.left_gt + n * sc <= a.w_gt
           /\ \A i \in 1..Len(result.lqs.items) :
                  /\ result.lqs.items[i].shape[axl[1]] = n
                  /\ result.lqs.items[i].shape[axl[2]] = n
           /\ \A i \in 1..Len(result.gts.items) :
                  /\ result.gts.items[i].shape[axg[1]] = sc * n
                  /\ result.gts.items[i].shape[axg[2]] = sc * n
                  /\ result.gts.items[i].ranges[axg[1]] = <<o.top_gt, o.top_gt + n * sc>>
                  /\ result.gts.items[i].ranges[axg[2]] = <<o.left_gt, o.left_gt + n * sc>>

C1_Witness ==
    /\ op = "paired_random_crop"
    /\ result.status = "returned"
    /\ args.scale = 2
    /\ args.lq_patch_size = 2
    /\ result.origin.top = 16
    /\ result.origin.left = 0
    /\ result.origin.top_gt = 32

\* the shape conditions, on the true extents of the first buffers
BadScale ==
    \/ args.actual.h_gt # args.actual.h_lq * args.scale
    \/ args.actual.w_gt # args.actual.w_lq * args.scale
BadPatch ==
    \/ args.actual.h_lq < args.lq_patch_size
    \/ args.actual.w_lq < args.lq_patch_size

Validation ==
    /\ (result.status = "exited") <=> (BadScale \/ BadPatch)
    /\ BadScale =>
           /\ result.report = "Scale mismatches"
           /\ result.dims = <<args.actual.h_gt, args.actual.w_gt, args.scale,
                              args.actual.h_lq, args.actual.w_lq>>
           /\ result.path = args.gt_path
    /\ (~BadScale /\ BadPatch) =>
           /\ result.report = "smaller than patch size"
           /\ result.dims = <<args.actual.h_lq, args.actual.w_lq, args.lq_patch_size>>
           /\ result.path = args.gt_path
    /\ (result.status = "exited") =>
           ("gts" \notin DOMAIN result /\ "lqs" \notin DOMAIN result)
    /\ ~(BadScale \/ BadPatch) =>
           /\ result.status = "returned"
           /\ Len(result.gts.items) = Len(args.gts.items)
           /\ Len(result.lqs.items) = Len(args.lqs.items)

\* the layouts the shape unpacking accepts
Unpacks == args.kind = "Numpy" \/ Len(args.gts.items[1]) = 4

\* C3 as stated: the call exits the process, with the report, exactly when a
\* shape condition is violated, and returns the crops otherwise, whatever the
\* buffers.
C3_AsStated == (op = "paired_random_crop") => Validation

\* C3 as amended: that holds for arrays and for 4-D tensors; a tensor of
\* another rank makes the call raise ValueError before any check.
C3_ExitIffShapeViolated ==
    (op = "paired_random_crop") =>
        /\ Unpacks => Validation
        /\ ~Unpacks => (result.status = "raised" /\ result.error = "ValueError")

C3_Witness ==
    /\ op = "paired_random_crop"
    /\ args.kind = "Tensor"
    /\ result.status = "exited"
    /\ result.report = "smaller than patch size"
    /\ ~BadScale

\* what C10 says of a call that got past the unpacking
LayoutRespected ==
    /\ result.input_type = args.kind
    /\ (result.status = "exited" /\ BadScale) =>
           result.dims = <<args.actual.h_gt, args.actual.w_gt, args.scale,
                           args.actual.h_lq, args.actual.w_lq>>
    /\ (result.status = "exited" /\ ~BadScale) =>
           result.dims = <<args.actual.h_lq, args.actual.w_lq, args.lq_patch_size>>
    /\ (result.status = "returned") =>
           /\ result.dims = <<args.actual.h_gt, args.actual.w_gt,
                              args.actual.h_lq, args.actual.w_lq>>
           /\ \A i \in 1..Len(result.lqs.items) :
                  IsWindow(result.lqs.items[i], i, args.lqs.items[i], args.kind,
                           result.origin.top, result.origin.left,
                           args.lq_patch_size)
           /\ \A i \in 1..Len(result.gts.items) :
                  IsWindow(result.gts.items[i], i, args.gts.items[i], args.kind,
                           result.origin.top_gt, result.origin.left_gt,
                           args.lq_patch_size * args.scale)

\* C10 as stated: a (channels, height, width) tensor, like a 4-D one, has its
\* height and width read from the trailing two axes and is cropped along them;
\* an array has them read from and cropped along the leading two.
C10_AsStated ==
    (op = "paired_random_crop") =>
        (result.status # "raised" /\ LayoutRespected)

\* C10 as amended: the tensor layout served is the 4-D one, (batch, channels,
\* height, width): shape[2:] are its trailing two axes and batch and channel
\* stay whole; a 3-D (channels, height, width) tensor is refused with
\* ValueError; arrays are read and cropped along the leading two axes.
C10_LayoutAxes ==
    (op = "paired_random_crop") =>
        /\ Unpacks => (result.status # "raised" /\ LayoutRespected)
        /\ ~Unpacks => (result.status = "raised" /\ result.input_type = args.kind)

C10_Witness ==
    /\ op = "paired_random_crop"
    /\ args.kind = "Tensor"
    /\ result.status = "returned"
    /\ result.origin.top = 0
    /\ result.origin.left = 16
    /\ args.scale = 2
    /\ args.lq_patch_size = 1
    /\ result.gts.items[1].ranges = <<<<0, Batch>>, <<0, NumCh>>, <<0, 2>>, <<32, 34>>>>

\* ---- basic_augment ----
\* the transforms as a caller would replay them on a value
Mirror(img, ax) ==
    [shape |-> img.shape,
     data  |-> [idx \in Indices(img.shape) |->
                   img.data[[k \in 1..Len(idx) |->
                       IF k = ax THEN img.shape[ax] - 1 - idx[k] ELSE idx[k]]]]]

SwapHW(img) ==
    LET swap(f) == [k \in 1..Len(f) |->
                       IF k = 1 THEN f[2] ELSE IF k = 2 THEN f[1] ELSE f[k]]
    IN [shape |-> swap(img.shape),
        data  |-> [idx \in Indices(swap(img.shape)) |-> img.data[swap(idx)]]]

\* horizontal flip if t[1], then vertical flip if t[2], then transpose if t[3]
Replay(img, t) ==
    LET a == IF t[1] THEN Mirror(img, 2) ELSE img
        b == IF t[2] THEN Mirror(a, 1) ELSE a
    IN IF t[3] THEN SwapHW(b) ELSE b

Triple(d) == <<d.hflip, d.vflip, d.rot90>>

\* C6 as stated: with return_status the call returns the triple, and applying
\* the triple to the same source image (the buffer the caller handed in, as
\* the call left it) gives the image the call returned.
C6_AsStated ==
    (op = "basic_augment" /\ args.return_status /\ result.status = "returned") =>
        /\ result.triple = Triple(result.decision)
        /\ \A i \in 1..Len(caller) :
               Replay(caller[i], result.triple) = result.imgs.items[i]

\* C6 as amended: applying the triple to a copy of the source image taken
\* before the call gives the image the call returned; the caller's own buffer
\* has by then been flipped in place.  The call returns unless rot90 is
\* chosen for a 2-D buffer, when it raises.
C6_ReplayOnCopy ==
    (op = "basic_augment" /\ args.return_status) =>
        /\ (result.status = "raised") <=>
               (result.decision.rot90 /\
                    \E i \in 1..Len(args.imgs.items) :
                        Len(args.imgs.items[i].shape) = 2)
        /\ (result.status = "returned") =>
               /\ result.triple = Triple(result.decision)
               /\ Len(result.imgs.items) = Len(args.imgs.items)
               /\ \A i \in 1..Len(args.imgs.items) :
                      /\ Replay(args.imgs.items[i], result.triple)
                             = result.imgs.items[i]
                      /\ caller[i] = Replay(args.imgs.items[i],
                             <<result.triple[1], result.triple[2], FALSE>>)
        /\ result.status \in {"returned", "raised"}

C6_Witness ==
    /\ op = "basic_augment"
    /\ args.return_status
    /\ result.status = "returned"
    /\ result.triple = <<TRUE, FALSE, TRUE>>
    /\ args.imgs.items[1].shape = <<1, 2, AugCh>>
    /\ result.imgs.items[1].shape = <<2, 1, AugCh>>
    /\ caller[1] # args.imgs.items[1]

\* C7: with hflip = false and rotation = false every buffer comes back equal
\* to its input, the caller's buffers are untouched, and the triple returned
\* with return_status is (false, false, false), whatever the probabilities.
C7_DisabledFlagsIdentity ==
    (op = "basic_augment" /\ ~args.hflip /\ ~args.rotation) =>
        /\ result.status = "returned"
        /\ result.imgs.items = args.imgs.items
        /\ caller = args.imgs.items
        /\ Triple(result.decision) = <<FALSE, FALSE, FALSE>>
        /\ args.return_status => result.triple = <<FALSE, FALSE, FALSE>>

C7_Witness ==
    /\ op = "basic_augment"
    /\ ~args.hflip /\ ~args.rotation
    /\ args.flip_prob = 2 /\ args.rotation_prob = 2
    /\ args.return_status
    /\ Len(args.imgs.items) = MaxGroup
    /\ result.status = "returned"

\* C8: for every group of 2-D or 3-D buffers the call succeeds and every
\* output is its input's original content under the one chosen triple, in the
\* order horizontal flip, vertical flip, transpose of the first two axes.
C8_GroupConsistency ==
    (op = "basic_augment") =>
        /\ result.status = "returned"
        /\ Len(result.imgs.items) = Len(args.imgs.items)
        /\ \A i \in 1..Len(args.imgs.items) :
               result.imgs.items[i] =
                   Replay(args.imgs.items[i], Triple(result.decision))

\* the samples a call takes: one if hflip is enabled, two if rotation is
Takes(a) == (IF a.hflip THEN 1 ELSE 0) + (IF a.rotation THEN 2 ELSE 0)

\* C9 as stated: every call takes three samples, used by position.
C9_AsStated ==
    [][(op' = "basic_augment") =>
        LET a == args'
            d == result'.decision
        IN /\ rngCount' = rngCount + 3
           /\ Len(d.drawn) = 3
           /\ d.hflip = (a.hflip /\ d.drawn[1] <= a.flip_prob)
           /\ d.vflip = (a.rotation /\ d.drawn[2] <= a.flip_prob)
           /\ d.rot90 = (a.rotation /\ d.drawn[3] <= a.rotation_prob)]_vars

\* C9 as amended: a call takes a sample only for an enabled decision, in the
\* order hflip, vflip, rot90: none, one, two or three samples; each enabled
\* decision compares its own sample with its probability and a disabled one
\* is false.
C9_DrawsFollowFlags ==
    [][(op' = "basic_augment") =>
        LET a == args'
            d == result'.decision
            n == Takes(a)
            first == IF a.hflip THEN 1 ELSE 0
        IN /\ rngCount' = rngCount + n
           /\ Len(d.drawn) = n
           /\ d.hflip = (a.hflip /\ d.drawn[1] <= a.flip_prob)
           /\ d.vflip = (a.rotation /\ d.drawn[first + 1] <= a.flip_prob)
           /\ d.rot90 = (a.rotation /\ d.drawn[first + 2] <= a.rotation_prob)]_vars

C9_Witness ==
    /\ op = "basic_augment"
    /\ ~args.hflip /\ args.rotation
    /\ Len(result.decision.drawn) = 2
    /\ result.decision.drawn = <<1, 0>>
    /\ args.flip_prob = 1 /\ args.rotation_prob = 0
    /\ Triple(result.decision) = <<FALSE, TRUE, TRUE>>
    /\ rngCount = 3

\* ---- cardinality of the groups ----
SameForm(in, out) ==
    /\ out.isList = in.isList
    /\ Len(out.items) = Len(in.items)

\* a list of exactly one buffer comes back as the bare buffer
UnwrappedForm(in, out) ==
    /\ out.isList = (in.isList /\ Len(in.items) >= 2)
    /\ Len(out.items) = Len(in.items)

Values(img) == {img.data[idx] : idx \in DOMAIN img.data}

CropOrder(out) == \A i \in 1..Len(out.items) : out.items[i].src = i
AugmentOrder(in, out) ==
    \A i \in 1..Len(out.items) : Values(out.items[i]) = Values(in.items[i])

\* C2 as stated: a single buffer in gives a single buffer out and a sequence
\* of N >= 1 buffers gives a sequence of N buffers in the same order, for the
\* GT group, the LQ group and the group of basic_augment.
C2_AsStated ==
    /\ (op = "paired_random_crop" /\ result.status = "returned") =>
           /\ SameForm(args.gts, result.gts) /\ CropOrder(result.gts)
           /\ SameForm(args.lqs, result.lqs) /\ CropOrder(result.lqs)
    /\ (op = "basic_augment" /\ result.status = "returned") =>
           /\ SameForm(args.imgs, result.imgs)
           /\ AugmentOrder(args.imgs, result.imgs)

\* C2 as amended: a single buffer gives a single buffer, a sequence of
\* N >= 2 buffers gives a sequence of N buffers in the same order, and a
\* sequence of exactly one buffer gives that one buffer, not a sequence.
C2_CardinalityUnwrapsOne ==
    /\ (op = "paired_random_crop" /\ result.status = "returned") =>
           /\ UnwrappedForm(args.gts, result.gts) /\ CropOrder(result.gts)
           /\ UnwrappedForm(args.lqs, result.lqs) /\ CropOrder(result.lqs)
    /\ (op = "basic_augment" /\ result.status = "returned") =>
           /\ UnwrappedForm(args.imgs, result.imgs)
           /\ AugmentOrder(args.imgs, result.imgs)

C2_Witness ==
    /\ op = "paired_random_crop"
    /\ result.status = "returned"
    /\ args.gts.isList /\ Len(args.gts.items) = 1
    /\ ~result.gts.isList
    /\ args.lqs.isList /\ Len(args.lqs.items) = 2
    /\ result.lqs.isList /\ Len(result.lqs.items) = 2

NextModCrop == ModCropCall \/ Release
SpecModCrop == Init /\ [][NextModCrop]_vars

NextCrop == PairedRandomCropCall \/ Release
SpecCrop == Init /\ [][NextCrop]_vars

NextAugment == BasicAugmentCall \/ Release
SpecAugment == Init /\ [][NextAugment]_vars

Next == ModCropCall \/ PairedRandomCropCall \/ BasicAugmentCall \/ Release
Spec == Init /\ [][Next]_vars
====
